---------------------------- MODULE Spec2Model ----------------------------
(***************************************************************************)
(* Model of the two pipelines of flare-p-chain-indexer:                    *)
(*   - the mirroring cronjob (mirrorCronJob.Call and what it calls),       *)
(*   - the X-chain input updater (xChainInputUpdater.UpdateInputs).        *)
(* The staking-transaction table, the verifier contract, the output cache, *)
(* the output store and the chain indexer are the environment.             *)
(***************************************************************************)
EXTENDS Integers, Sequences, FiniteSets, TLC

(***************************************************************************)
(* Bounds of the model.                                                    *)
(***************************************************************************)
\* rows the staking-transaction table can hold
MaxTxs == 2
\* the wall clock runs over 0..MaxTime
MaxTime == 4
\* the epoch clock is applied to periods 1..MaxPeriod, anchors 0..MaxAnchor
\* and times 0..MaxClock
MaxPeriod == 3
MaxAnchor == 4
MaxClock == 9
\* inputs in a batch handed to UpdateInputs
MaxInputs == 2
\* leaves of a tree built on its own, over the id strings 1..MaxIdStrings
MaxLeaves == 3
MaxIdStrings == 4

(***************************************************************************)
(* Configurations of the mirroring cronjob explored by Spec:               *)
(* cfg.Mirror.EpochPeriod in seconds and cfg.Mirror.EpochTime.Unix().      *)
(***************************************************************************)
MirrorPeriods == {2}
MirrorAnchors == {0}

VARIABLES
    \* ---- mirrorCronJob and its environment
    epochPeriodSeconds,  \* c.epochPeriodSeconds
    epochTimeSeconds,    \* c.epochTimeSeconds
    now,                 \* the wall clock, time.Now().Unix()
    table,               \* the staking-transaction table behind c.db
    pc,                  \* where Call is: "idle", "mirrorTx" or "mark"
    epoch,               \* Call's local epoch
    txs,                 \* Call's local txs, the selected rows (copies)
    merkleTree,          \* mirrorTxs' local merkleTree
    idx,                 \* mirrorTxs' loop index i (1-based)
    window,              \* <<startTimestamp, endTimestamp>> of the last selection
    ret,                 \* what the last finished Call returned
    log,                 \* the calls the current (or last) run made, in order
    \* ---- xChainInputUpdater and its environment
    inputs,              \* the batch: the []*database.TxInput of UpdateInputs
    cache,               \* transactions whose outputs the Output Cache holds
    store,               \* transactions whose outputs the output store holds
    chainTx,             \* what the chain indexer answers for a transaction id
    upc,                 \* where UpdateInputs is: "idle", "chain" or "done"
    notUpdated,          \* UpdateInputs' local map: id -> inputs waiting for it
    pending,             \* ids the range loop of updateFromChain has yet to visit
    fetchedOuts,         \* updateFromChain's local fetchedOuts
    uret,                \* what UpdateInputs returned
    ulog,                \* the tier calls UpdateInputs made, in order
    \* ---- one proof lookup, outside a run
    probe,               \* the row handed to mirrorTx, <<>> before any
    found                \* what getMerkleProof returned for the row's hash

mirrorVars == <<epochPeriodSeconds, epochTimeSeconds, now, table, pc, epoch,
                txs, merkleTree, idx, window, ret, log>>

inputVars == <<inputs, cache, store, chainTx, upc, notUpdated, pending,
               fetchedOuts, uret, ulog>>

probeVars == <<probe, found>>

vars == <<mirrorVars, inputVars, probeVars>>

(***************************************************************************)
(* Go values.                                                              *)
(***************************************************************************)
\* a nil pointer is the empty sequence, a pointer to v is <<v>>
NilPtr == <<>>

Ptr(v) == <<v>>

Deref(p) == p[1]

\* Go's integer division truncates toward zero (b > 0 here)
GoDiv(a, b) == IF a >= 0 THEN a \div b ELSE -((-a) \div b)

\* the error value nil
NoErr == "nil"

(***************************************************************************)
(* Staking-transaction rows (database.PChainVotingData).  A transaction id *)
(* string is a number: s >= 1 stands for the well-formed CB58 string of    *)
(* the id IdOfString(s), 0 for a string that is no CB58 id.                *)
(***************************************************************************)
BadIdString == 0

\* the shapes a row's checked fields can take: a complete row of either
\* staking type, and one row per way a field can be unfit for mirroring
RowShapes ==
    { [txid |-> "ok",  type |-> "ADD_VALIDATOR_TX", node |-> "NodeID-1", start |-> TRUE,  end |-> TRUE],
      [txid |-> "ok",  type |-> "ADD_DELEGATOR_TX", node |-> "NodeID-1", start |-> TRUE,  end |-> TRUE],
      [txid |-> "nil", type |-> "ADD_VALIDATOR_TX", node |-> "NodeID-1", start |-> TRUE,  end |-> TRUE],
      [txid |-> "bad", type |-> "ADD_DELEGATOR_TX", node |-> "NodeID-1", start |-> TRUE,  end |-> TRUE],
      [txid |-> "ok",  type |-> "REWARD_TX",        node |-> "NodeID-1", start |-> TRUE,  end |-> TRUE],
      [txid |-> "ok",  type |-> "ADD_VALIDATOR_TX", node |-> "garbage",  start |-> TRUE,  end |-> TRUE],
      [txid |-> "ok",  type |-> "ADD_DELEGATOR_TX", node |-> "NodeID-1", start |-> FALSE, end |-> TRUE],
      [txid |-> "ok",  type |-> "ADD_VALIDATOR_TX", node |-> "NodeID-1", start |-> TRUE,  end |-> FALSE] }

\* the row ingestion writes as row number id, of shape sh, timestamped ts
MakeRow(id, sh, ts) ==
    [ ID        |-> id,
      TxID      |-> CASE sh.txid = "nil" -> NilPtr
                      [] sh.txid = "bad" -> Ptr(BadIdString)
                      [] OTHER           -> Ptr(id),
      Type      |-> sh.type,
      NodeID    |-> sh.node,
      StartTime |-> IF sh.start THEN Ptr(ts) ELSE NilPtr,
      EndTime   |-> IF sh.end THEN Ptr(ts + 1) ELSE NilPtr,
      Timestamp |-> ts,
      Mirrored  |-> FALSE ]


(***************************************************************************)
(* The log of a run: one event per call the run makes that the claims      *)
(* speak of.  id is the row the call is about (0 when none), ids the rows  *)
(* of a batch call, ok whether the call returned without error.            *)
(***************************************************************************)
Ev(op, id, ids, ok) == [op |-> op, id |-> id, ids |-> ids, ok |-> ok]

\* the event of a VerifyStake call: data and proof are its arguments
EvVerifyStake(id, ok, data, proof) ==
    [op |-> "VerifyStake", id |-> id, ids |-> <<>>, ok |-> ok,
     data |-> data, proof |-> proof]

RECURSIVE IdsOf(_)
IdsOf(rows) ==
    IF rows = <<>> THEN <<>> ELSE <<rows[1].ID>> \o IdsOf(Tail(rows))

Range(s) == {s[i] : i \in 1..Len(s)}

(***************************************************************************)
(* Epoch clock.                                                            *)
(***************************************************************************)
\* mirrorCronJob.getPreviousEpoch, t being time.Now().Unix()
getPreviousEpoch(t) ==
    LET currEpoch == GoDiv(t - epochTimeSeconds, epochPeriodSeconds)
    IN  currEpoch - 1

\* startTimestamp and endTimestamp of getUnmirroredTxs, in Unix seconds
startTimestamp(e) == epochTimeSeconds + (e * epochPeriodSeconds)

endTimestamp(e) == startTimestamp(e) + epochPeriodSeconds

(***************************************************************************)
(* The storage layer (package database).                                   *)
(***************************************************************************)
\* database.GetUnmirroredPChainTxs: the rows timestamped in [start, end)
\* whose mirrored flag is unset, in storage order
GetUnmirroredPChainTxs(tbl, start, end) ==
    SelectSeq(tbl, LAMBDA r : start <= r.Timestamp /\ r.Timestamp < end /\ ~r.Mirrored)

\* database.MarkTxsAsMirrored: one batched update setting the flag of the
\* rows whose keys are those of rows
MarkTxsAsMirrored(tbl, rows) ==
    [k \in 1..Len(tbl) |->
        IF tbl[k].ID \in Range(IdsOf(rows))
        THEN [tbl[k] EXCEPT !.Mirrored = TRUE]
        ELSE tbl[k]]

\* faulty variant of getUnmirroredTxs: the window starts at the anchor
getUnmirroredTxsFromAnchor(e) ==
    GetUnmirroredPChainTxs(table, epochTimeSeconds, endTimestamp(e))

\* mirrorCronJob.getUnmirroredTxs
getUnmirroredTxs(e) ==
    GetUnmirroredPChainTxs(table, startTimestamp(e), endTimestamp(e))

(***************************************************************************)
(* Parsers of the ledger library, as the cronjob uses them.                *)
(***************************************************************************)
\* the 32-byte id a well-formed id string decodes to
IdOfString(s) == 100 + s

\* ids.FromString
IdsFromString(s) ==
    IF s = BadIdString
    THEN [err |-> "ids.FromString", id |-> 0]
    ELSE [err |-> NoErr, id |-> IdOfString(s)]

\* ids.NodeIDFromString
NodeIDFromString(s) ==
    IF s = "NodeID-1"
    THEN [err |-> NoErr, id |-> 1]
    ELSE [err |-> "ids.NodeIDFromString", id |-> 0]

(***************************************************************************)
(* Merkle commitment (package merkle).                                     *)
(***************************************************************************)
\* A hash is a sequence of integers: the hash of the 32-byte id n is <<n>>,
\* the hash of a pair is the bracketed concatenation of the two hashes, so
\* that distinct pairs have distinct hashes.
LeafHash(h) == <<h>>

HashPair(a, b) == <<-1>> \o a \o b \o <<-2>>

\* the order on hashes (lexicographic)
RECURSIVE HashLess(_, _)
HashLess(a, b) ==
    IF a = <<>> THEN b # <<>>
    ELSE IF b = <<>> THEN FALSE
    ELSE IF a[1] # b[1] THEN a[1] < b[1]
    ELSE HashLess(Tail(a), Tail(b))

\* the hash of two sibling nodes: of the pair in sorted order, so that a
\* proof needs no left/right marks
SortedHashPair(a, b) == IF HashLess(b, a) THEN HashPair(b, a) ELSE HashPair(a, b)

\* the node number j of the tree over the leaves L: the tree is a complete
\* binary tree kept in an array of 2n-1 nodes, the root first, the n leaves
\* last and in the order given; the children of node j are 2j and 2j+1
RECURSIVE NodeHash(_, _)
NodeHash(L, j) ==
    IF j >= Len(L)
    THEN LeafHash(L[j - Len(L) + 1])
    ELSE SortedHashPair(NodeHash(L, 2 * j), NodeHash(L, 2 * j + 1))

\* merkle.Build(hashes, false): the tree over the leaves as given
MerkleBuild(hashes) ==
    [leaves |-> hashes,
     nodes  |-> [j \in 1..(2 * Len(hashes) - 1) |-> NodeHash(hashes, j)]]

\* Tree.Root
MerkleRoot(tree) == tree.nodes[1]

\* the sibling hashes on the way from node j up to the root
RECURSIVE SiblingPath(_, _)
SiblingPath(tree, j) ==
    IF j <= 1 THEN <<>>
    ELSE <<tree.nodes[IF j % 2 = 0 THEN j + 1 ELSE j - 1]>>
         \o SiblingPath(tree, j \div 2)

\* Tree.GetProofFromHash: the sibling path of the (first) leaf equal to h;
\* fails when the hash is no leaf of the tree
GetProofFromHash(tree, h) ==
    LET at == {k \in 1..Len(tree.leaves) : tree.leaves[k] = h}
    IN  IF at = {}
        THEN [err |-> "hash not found", proof |-> <<>>]
        ELSE [err |-> NoErr,
              proof |-> SiblingPath(tree, Len(tree.leaves) - 1
                                          + (CHOOSE k \in at : \A m \in at : k <= m))]

\* the verifier's recombination of a leaf hash with a sibling path
RECURSIVE Recombine(_, _)
Recombine(h, proof) ==
    IF proof = <<>> THEN h
    ELSE Recombine(SortedHashPair(h, proof[1]), Tail(proof))

\* faulty variant of FirstBadTxID: the error of ids.FromString is not checked
FirstBadTxIDNilOnly(rows) ==
    LET bad == {i \in 1..Len(rows) : rows[i].TxID = NilPtr}
    IN  IF bad = {} THEN 0 ELSE CHOOSE i \in bad : \A j \in bad : i <= j

\* index of the first row of rows whose TxID buildTree rejects, 0 when none
FirstBadTxID(rows) ==
    LET bad == {i \in 1..Len(rows) :
                   \/ rows[i].TxID = NilPtr
                   \/ IdsFromString(Deref(rows[i].TxID)).err # NoErr}
    IN  IF bad = {} THEN 0 ELSE CHOOSE i \in bad : \A j \in bad : i <= j

\* faulty variant of buildTree: the hashes are filled in from the end
buildTreeReversed(rows) ==
    LET k == FirstBadTxID(rows)
    IN  IF k # 0
        THEN [err  |-> IF rows[k].TxID = NilPtr THEN "tx.TxID is nil" ELSE "ids.FromString",
              tree |-> MerkleBuild(<<>>)]
        ELSE [err  |-> NoErr,
              tree |-> MerkleBuild([i \in 1..Len(rows) |->
                                      IdsFromString(Deref(rows[Len(rows) + 1 - i].TxID)).id])]

\* buildTree
buildTree(rows) ==
    LET k == FirstBadTxID(rows)
    IN  IF k # 0
        THEN [err  |-> IF rows[k].TxID = NilPtr THEN "tx.TxID is nil" ELSE "ids.FromString",
              tree |-> MerkleBuild(<<>>)]
        ELSE [err  |-> NoErr,
              tree |-> MerkleBuild([i \in 1..Len(rows) |->
                                      IdsFromString(Deref(rows[i].TxID)).id])]

\* faulty variant of getMerkleProof: the error of GetProofFromHash is ignored
getMerkleProofErrIgnored(tree, txHash) ==
    [err |-> NoErr, proof |-> GetProofFromHash(tree, txHash).proof]

\* getMerkleProof
getMerkleProof(tree, txHash) ==
    LET r == GetProofFromHash(tree, txHash)
    IN  IF r.err # NoErr
        THEN [err |-> "merkleTree.GetProof", proof |-> <<>>]
        ELSE [err |-> NoErr, proof |-> r.proof]

(***************************************************************************)
(* Stake attestation.                                                      *)
(***************************************************************************)
\* faulty variant of getTxType: the default case returns tag 0 and no error
getTxTypeNoDefaultErr(txType) ==
    CASE txType = "ADD_DELEGATOR_TX" -> [err |-> NoErr, tag |-> 1]
      [] OTHER                       -> [err |-> NoErr, tag |-> 0]

\* faulty variant of getTxType: the two tags are exchanged
getTxTypeSwapped(txType) ==
    CASE txType = "ADD_VALIDATOR_TX" -> [err |-> NoErr, tag |-> 1]
      [] txType = "ADD_DELEGATOR_TX" -> [err |-> NoErr, tag |-> 0]
      [] OTHER                       -> [err |-> "invalid tx type", tag |-> 0]

\* values of database.PChainTxType: the two staking types and others
PChainTxTypes ==
    {"ADD_VALIDATOR_TX", "ADD_DELEGATOR_TX", "REWARD_TX", "IMPORT_TX", "EXPORT_TX"}

\* getTxType
getTxType(txType) ==
    CASE txType = "ADD_VALIDATOR_TX" -> [err |-> NoErr, tag |-> 0]
      [] txType = "ADD_DELEGATOR_TX" -> [err |-> NoErr, tag |-> 1]
      [] OTHER                       -> [err |-> "invalid tx type", tag |-> 0]

\* toStakeData
toStakeData(tx, epochID, txHash) ==
    LET ty == getTxType(tx.Type)
        nd == NodeIDFromString(tx.NodeID)
    IN  CASE ty.err # NoErr         -> [err |-> ty.err, data |-> <<>>]
          [] nd.err # NoErr         -> [err |-> nd.err, data |-> <<>>]
          [] tx.StartTime = NilPtr  -> [err |-> "tx.StartTime is nil", data |-> <<>>]
          [] tx.EndTime = NilPtr    -> [err |-> "tx.EndTime is nil", data |-> <<>>]
          [] OTHER ->
               [err  |-> NoErr,
                data |-> << [EpochId         |-> epochID,
                             TransactionHash |-> txHash,
                             TransactionType |-> ty.tag,
                             NodeId          |-> nd.id,
                             StartTime       |-> Deref(tx.StartTime),
                             EndTime         |-> Deref(tx.EndTime)] >>]

\* faulty variant of verifyStakeErr: the contract call's error is dropped
verifyStakeErrDropped(vsOk) == NoErr

\* the error mirrorTx returns after the contract call: VerifyStake's, wrapped
verifyStakeErr(vsOk) ==
    IF vsOk THEN NoErr ELSE "mirroringContract.VerifyStake"

\* mirrorCronJob.mirrorTx on one row; vsOk is whether the contract's
\* VerifyStake returns without error when it is called.  Yields the error
\* and the calls made.
mirrorTx(epochID, tree, tx, vsOk) ==
    LET h  == IdsFromString(Deref(tx.TxID))
        sd == toStakeData(tx, epochID, h.id)
        mp == getMerkleProof(tree, h.id)
    IN  CASE h.err # NoErr  -> [err |-> "ids.FromString", events |-> <<>>]
          [] sd.err # NoErr -> [err |-> sd.err, events |-> <<>>]
          [] mp.err # NoErr -> [err |-> mp.err,
                                events |-> <<Ev("GetProofFromHash", tx.ID, <<>>, FALSE)>>]
          [] OTHER ->
               [err    |-> verifyStakeErr(vsOk),
                events |-> <<Ev("GetProofFromHash", tx.ID, <<>>, TRUE),
                             EvVerifyStake(tx.ID, vsOk, Deref(sd.data), mp.proof)>>]

(***************************************************************************)
(* mirrorCronJob.Call, in steps: one step up to the first contract call,   *)
(* one step per mirrorTx, one step for MarkTxsAsMirrored.  Each external   *)
(* call's failure is an input of its step.                                 *)
(***************************************************************************)
\* Call returns err: its locals are gone
CallReturns(err, events) ==
    /\ pc' = "idle"
    /\ ret' = err
    /\ log' = log \o events
    /\ txs' = <<>>
    /\ merkleTree' = MerkleBuild(<<>>)
    /\ idx' = 0

\* mirrorCronJob.mirrorTxs up to its loop: buildTree over the selection sel
mirrorTxsBegin(sel) ==
    LET bt == buildTree(sel)
    IN  IF bt.err # NoErr
        THEN /\ pc' = "idle"
             /\ ret' = bt.err
             /\ txs' = <<>>
             /\ merkleTree' = MerkleBuild(<<>>)
             /\ idx' = 0
             /\ log' = <<Ev("GetUnmirroredPChainTxs", 0, IdsOf(sel), TRUE),
                         Ev("buildTree", 0, IdsOf(sel), FALSE)>>
        ELSE /\ pc' = "mirrorTx"
             /\ ret' = "running"
             /\ txs' = sel
             /\ merkleTree' = bt.tree
             /\ idx' = 1
             /\ log' = <<Ev("GetUnmirroredPChainTxs", 0, IdsOf(sel), TRUE),
                         Ev("buildTree", 0, IdsOf(sel), TRUE)>>

\* faulty variant of invalidEpoch: off by one, epoch -1 passes
invalidEpochOffByOne(e) == e < -1

\* the test of Call on the epoch index
invalidEpoch(e) == e < 0

\* Call from its entry to the first VerifyStake (or to its return); dbOk is
\* whether the selection query succeeds
CallBegin(dbOk) ==
    /\ pc = "idle"
    /\ epoch' = getPreviousEpoch(now)
    /\ UNCHANGED <<epochPeriodSeconds, epochTimeSeconds, now, table>>
    /\ UNCHANGED <<inputVars, probeVars>>
    /\ LET e == getPreviousEpoch(now)
       IN  window' = IF invalidEpoch(e) THEN <<>>
                     ELSE <<startTimestamp(e), endTimestamp(e)>>
    /\ LET e == getPreviousEpoch(now)
       IN  IF invalidEpoch(e)
           THEN /\ pc' = "idle"
                /\ ret' = "invalid epoch"
                /\ log' = <<>>
                /\ UNCHANGED <<txs, merkleTree, idx>>
           ELSE IF ~dbOk
           THEN /\ pc' = "idle"
                /\ ret' = "db error"
                /\ log' = <<Ev("GetUnmirroredPChainTxs", 0, <<>>, FALSE)>>
                /\ UNCHANGED <<txs, merkleTree, idx>>
           ELSE IF Len(getUnmirroredTxs(e)) = 0
           THEN /\ pc' = "idle"
                /\ ret' = NoErr
                /\ log' = <<Ev("GetUnmirroredPChainTxs", 0, <<>>, TRUE)>>
                /\ UNCHANGED <<txs, merkleTree, idx>>
           ELSE mirrorTxsBegin(getUnmirroredTxs(e))

\* faulty variant of MirrorTxStep: a failed mirrorTx is skipped, the loop goes on
MirrorTxStepSkipsFailed(vsOk) ==
    /\ pc = "mirrorTx"
    /\ UNCHANGED <<epochPeriodSeconds, epochTimeSeconds, now, table, epoch, window>>
    /\ UNCHANGED <<inputVars, probeVars>>
    /\ LET r == mirrorTx(epoch, merkleTree, txs[idx], vsOk)
       IN  /\ log' = log \o r.events
           /\ pc' = IF idx = Len(txs) THEN "mark" ELSE "mirrorTx"
           /\ idx' = IF idx = Len(txs) THEN idx ELSE idx + 1
           /\ UNCHANGED <<txs, merkleTree, ret>>

\* one iteration of the loop of mirrorTxs
MirrorTxStep(vsOk) ==
    /\ pc = "mirrorTx"
    /\ UNCHANGED <<epochPeriodSeconds, epochTimeSeconds, now, table, epoch, window>>
    /\ UNCHANGED <<inputVars, probeVars>>
    /\ LET r == mirrorTx(epoch, merkleTree, txs[idx], vsOk)
       IN  IF r.err # NoErr
           THEN CallReturns(r.err, r.events)
           ELSE /\ log' = log \o r.events
                /\ pc' = IF idx = Len(txs) THEN "mark" ELSE "mirrorTx"
                /\ idx' = IF idx = Len(txs) THEN idx ELSE idx + 1
                /\ UNCHANGED <<txs, merkleTree, ret>>

\* faulty variant of MarkStep: each submitted row is marked although the
\* update failed
MarkStepMarksOnError(dbOk) ==
    /\ pc = "mark"
    /\ UNCHANGED <<epochPeriodSeconds, epochTimeSeconds, now, epoch, window>>
    /\ UNCHANGED <<inputVars, probeVars>>
    /\ table' = MarkTxsAsMirrored(table, txs)
    /\ CallReturns(IF dbOk THEN NoErr ELSE "db error",
                   <<Ev("MarkTxsAsMirrored", 0, IdsOf(txs), dbOk)>>)

\* faulty variant of MarkStep: Call returns success without the update
MarkStepNoUpdate(dbOk) ==
    /\ pc = "mark"
    /\ UNCHANGED <<epochPeriodSeconds, epochTimeSeconds, now, epoch, window, table>>
    /\ UNCHANGED <<inputVars, probeVars>>
    /\ CallReturns(IF dbOk THEN NoErr ELSE "db error",
                   <<Ev("MarkTxsAsMirrored", 0, IdsOf(txs), dbOk)>>)

\* the end of Call: database.MarkTxsAsMirrored(c.db, txs) and the return
MarkStep(dbOk) ==
    /\ pc = "mark"
    /\ UNCHANGED <<epochPeriodSeconds, epochTimeSeconds, now, epoch, window>>
    /\ UNCHANGED <<inputVars, probeVars>>
    /\ table' = IF dbOk THEN MarkTxsAsMirrored(table, txs) ELSE table
    /\ CallReturns(IF dbOk THEN NoErr ELSE "db error",
                   <<Ev("MarkTxsAsMirrored", 0, IdsOf(txs), dbOk)>>)

\* upstream ingestion writes a new staking-transaction row, timestamped ts.
\* Rows are written while the epoch of their timestamp is still open: ts is
\* not in the future and not before the end of the previous epoch.
Ingest(sh, ts) ==
    /\ Len(table) < MaxTxs
    /\ ts <= now
    /\ ts >= endTimestamp(getPreviousEpoch(now))
    /\ table' = Append(table, MakeRow(Len(table) + 1, sh, ts))
    /\ UNCHANGED <<epochPeriodSeconds, epochTimeSeconds, now, pc, epoch, txs,
                   merkleTree, idx, window, ret, log>>
    /\ UNCHANGED <<inputVars, probeVars>>

\* the wall clock advances by one second
Tick ==
    /\ now < MaxTime
    /\ now' = now + 1
    /\ UNCHANGED <<epochPeriodSeconds, epochTimeSeconds, table, pc, epoch, txs,
                   merkleTree, idx, window, ret, log>>
    /\ UNCHANGED <<inputVars, probeVars>>

\* no proof was looked up
ProbeIdle ==
    /\ probe = <<>>
    /\ found = <<>>

\* the input updater before any call, with nothing to resolve
InputsIdle ==
    /\ inputs = <<>>
    /\ cache = {}
    /\ store = {}
    /\ chainTx = <<>>
    /\ upc = "idle"
    /\ notUpdated = <<>>
    /\ pending = {}
    /\ fetchedOuts = {}
    /\ uret = [err |-> "none", ids |-> {}]
    /\ ulog = <<>>

Init ==
    /\ InputsIdle
    /\ ProbeIdle
    /\ epochPeriodSeconds \in MirrorPeriods
    /\ epochTimeSeconds \in MirrorAnchors
    /\ now = 0
    /\ table = <<>>
    /\ pc = "idle"
    /\ epoch = 0
    /\ txs = <<>>
    /\ merkleTree = MerkleBuild(<<>>)
    /\ idx = 0
    /\ window = <<>>
    /\ ret = "none"
    /\ log = <<>>

Next ==
    \/ \E dbOk \in BOOLEAN : CallBegin(dbOk)
    \/ \E vsOk \in BOOLEAN : MirrorTxStep(vsOk)
    \/ \E dbOk \in BOOLEAN : MarkStep(dbOk)
    \/ \E sh \in RowShapes, ts \in 0..MaxTime : Ingest(sh, ts)
    \/ Tick

Spec == Init /\ [][Next]_vars

(***************************************************************************)
(* The epoch clock on its own: getPreviousEpoch and the window of          *)
(* getUnmirroredTxs applied to every period, anchor and time in range.     *)
(***************************************************************************)
EpochInit ==
    /\ InputsIdle
    /\ ProbeIdle
    /\ epochPeriodSeconds \in 1..MaxPeriod
    /\ epochTimeSeconds \in 0..MaxAnchor
    /\ now = 0
    /\ table = <<>>
    /\ pc = "idle"
    /\ epoch = 0
    /\ txs = <<>>
    /\ merkleTree = MerkleBuild(<<>>)
    /\ idx = 0
    /\ window = <<>>
    /\ ret = "none"
    /\ log = <<>>

\* the clock reads t; the previous epoch and its window are computed
EpochStep(t) ==
    /\ now' = t
    /\ epoch' = getPreviousEpoch(t)
    /\ window' = <<startTimestamp(getPreviousEpoch(t)), endTimestamp(getPreviousEpoch(t))>>
    /\ ret' = "epoch"
    /\ UNCHANGED <<epochPeriodSeconds, epochTimeSeconds, table, pc, txs,
                   merkleTree, idx, log>>
    /\ UNCHANGED <<inputVars, probeVars>>

EpochNext == \E t \in 0..MaxClock : EpochStep(t)

SpecEpoch == EpochInit /\ [][EpochNext]_vars

(***************************************************************************)
(* The X-chain input updater.  An input refers to output OutIdx of         *)
(* transaction OutTxID; Out is the output attached to it, nil while it is  *)
(* unresolved.  The cache and the store hold the outputs of whole          *)
(* transactions.                                                           *)
(***************************************************************************)
OutTxIds == {"txA", "txB"}

OutIdxs == {0, 1}

\* what chain.FetchContainerFromIndexer and the parser make of an id: no
\* container, a failed fetch, bytes that do not parse, or a parsed
\* transaction of the named shape
ContainerKinds == {"nil", "fetcherr", "garbage", "BaseTx", "ImportTx", "OperationTx"}

\* the output number i of transaction tx (database.TxOutput)
Output(tx, i) == [TxID |-> tx, Idx |-> i, Address |-> <<"addr", tx, i>>]

\* shared.TxOutputsFromBaseTx(txId, baseTx): the outputs of the transaction
TxOutputsFromBaseTx(txId) == {Output(txId, i) : i \in OutIdxs}

\* database.FetchXChainTxOutputs(db, ids): the stored outputs of the ids
FetchXChainTxOutputs(st, ids) ==
    UNION {TxOutputsFromBaseTx(t) : t \in st \cap ids}

\* the output among outs that input in refers to, as a pointer
MatchingOut(in, outs) ==
    LET m == {o \in outs : o.TxID = in.OutTxID /\ o.Idx = in.OutIdx}
    IN  IF m = {} THEN NilPtr ELSE Ptr(CHOOSE o \in m : TRUE)

\* BaseInputUpdater.UpdateInputsFromCache: attaches the cached outputs and
\* returns the map from the ids the cache misses to the inputs waiting
UpdateInputsFromCache(ins, cch) ==
    LET missed == {ins[i].OutTxID : i \in {j \in 1..Len(ins) : ins[j].OutTxID \notin cch}}
    IN  [inputs |-> [i \in 1..Len(ins) |->
                        IF ins[i].OutTxID \in cch
                        THEN [ins[i] EXCEPT !.Out = MatchingOut(ins[i], TxOutputsFromBaseTx(ins[i].OutTxID))]
                        ELSE ins[i]],
         notUpdated |-> [k \in missed |-> {i \in 1..Len(ins) : ins[i].OutTxID = k}]]

\* shared.UpdateInputsWithOutputs: attaches outs to the waiting inputs they
\* match and removes from the map the ids all of whose inputs are resolved
UpdateInputsWithOutputs(ins, nu, outs) ==
    LET waiting == UNION {nu[k] : k \in DOMAIN nu}
        hit(i)  == i \in waiting /\ MatchingOut(ins[i], outs) # NilPtr
        left    == {k \in DOMAIN nu : \E i \in nu[k] : ~hit(i)}
    IN  [inputs |-> [i \in 1..Len(ins) |->
                        IF hit(i) THEN [ins[i] EXCEPT !.Out = MatchingOut(ins[i], outs)]
                        ELSE ins[i]],
         notUpdated |-> [k \in left |-> nu[k]]]

\* utils.Keys
Keys(m) == DOMAIN m

UEv(op, ids, ok) == [op |-> op, ids |-> ids, ok |-> ok]

URet(err, ids) == [err |-> err, ids |-> ids]

\* faulty variant of containerOutcome: a nil container is reported as an error
containerOutcomeNilIsError(txId, kind) ==
    CASE kind = "fetcherr"    -> [err |-> "fetch failed", outs |-> {}]
      [] kind = "nil"         -> [err |-> "not found", outs |-> {}]
      [] kind = "garbage"     -> [err |-> "parse failed", outs |-> {}]
      [] kind = "BaseTx"      -> [err |-> NoErr, outs |-> TxOutputsFromBaseTx(txId)]
      [] kind = "ImportTx"    -> [err |-> NoErr, outs |-> TxOutputsFromBaseTx(txId)]
      [] OTHER                -> [err |-> "unsupported type " \o kind, outs |-> {}]

\* faulty variant of containerOutcome: the ImportTx case is missing
containerOutcomeNoImportTx(txId, kind) ==
    CASE kind = "fetcherr"    -> [err |-> "fetch failed", outs |-> {}]
      [] kind = "nil"         -> [err |-> NoErr, outs |-> {}]
      [] kind = "garbage"     -> [err |-> "parse failed", outs |-> {}]
      [] kind = "BaseTx"      -> [err |-> NoErr, outs |-> TxOutputsFromBaseTx(txId)]
      [] OTHER                -> [err |-> "unsupported type " \o kind, outs |-> {}]

\* faulty variant of containerOutcome: bytes that do not parse are skipped
containerOutcomeParseErrorSkipped(txId, kind) ==
    CASE kind = "fetcherr"    -> [err |-> "fetch failed", outs |-> {}]
      [] kind = "nil"         -> [err |-> NoErr, outs |-> {}]
      [] kind = "garbage"     -> [err |-> NoErr, outs |-> {}]
      [] kind = "BaseTx"      -> [err |-> NoErr, outs |-> TxOutputsFromBaseTx(txId)]
      [] kind = "ImportTx"    -> [err |-> NoErr, outs |-> TxOutputsFromBaseTx(txId)]
      [] OTHER                -> [err |-> "unsupported type " \o kind, outs |-> {}]

\* one iteration of the loop of updateFromChain, for the id txId whose
\* container is of the given kind: the error it returns with, or the outputs
\* it appends to fetchedOuts
containerOutcome(txId, kind) ==
    CASE kind = "fetcherr"    -> [err |-> "fetch failed", outs |-> {}]
      [] kind = "nil"         -> [err |-> NoErr, outs |-> {}]
      [] kind = "garbage"     -> [err |-> "parse failed", outs |-> {}]
      [] kind = "BaseTx"      -> [err |-> NoErr, outs |-> TxOutputsFromBaseTx(txId)]
      [] kind = "ImportTx"    -> [err |-> NoErr, outs |-> TxOutputsFromBaseTx(txId)]
      [] OTHER                -> [err |-> "unsupported type " \o kind, outs |-> {}]

\* faulty variant of unresolvedResult: the test len(notUpdated) > 0 is missing
unresolvedResultUntested(nu) ==
    URet("unable to fetch transactions with ids", Keys(nu))

\* the end of UpdateInputs: the error naming the ids left in the map
unresolvedResult(nu) ==
    IF Cardinality(Keys(nu)) > 0
    THEN URet("unable to fetch transactions with ids", Keys(nu))
    ELSE URet(NoErr, {})

\* faulty variant of UpdateInputsBegin: the chain tier is given the map as
\* the cache tier left it, not narrowed by the store tier
UpdateInputsBeginNoNarrowing(storeOk) ==
    /\ upc \in {"idle", "done"}
    /\ UNCHANGED <<mirrorVars, probeVars>>
    /\ UNCHANGED <<cache, store, chainTx>>
    /\ LET c == UpdateInputsFromCache(inputs, cache)
           d == UpdateInputsWithOutputs(c.inputs, c.notUpdated,
                                        FetchXChainTxOutputs(store, Keys(c.notUpdated)))
       IN  IF ~storeOk
           THEN /\ inputs' = c.inputs
                /\ notUpdated' = c.notUpdated
                /\ pending' = {}
                /\ fetchedOuts' = {}
                /\ upc' = "done"
                /\ uret' = URet("db error", {})
                /\ ulog' = <<UEv("cache", {}, TRUE),
                             UEv("FetchXChainTxOutputs", Keys(c.notUpdated), FALSE)>>
           ELSE /\ inputs' = d.inputs
                /\ notUpdated' = c.notUpdated
                /\ pending' = Keys(c.notUpdated)
                /\ fetchedOuts' = {}
                /\ upc' = IF Keys(c.notUpdated) = {} THEN "done" ELSE "chain"
                /\ uret' = IF Keys(c.notUpdated) = {} THEN unresolvedResult(c.notUpdated)
                           ELSE URet("running", {})
                /\ ulog' = <<UEv("cache", {}, TRUE),
                             UEv("FetchXChainTxOutputs", Keys(c.notUpdated), TRUE)>>

\* UpdateInputs from its entry through the cache tier and updateFromDB, up
\* to the first chain fetch (or to its return); storeOk is whether the
\* store query succeeds
UpdateInputsBegin(storeOk) ==
    /\ upc \in {"idle", "done"}
    /\ UNCHANGED <<mirrorVars, probeVars>>
    /\ UNCHANGED <<cache, store, chainTx>>
    /\ LET c == UpdateInputsFromCache(inputs, cache)
           d == UpdateInputsWithOutputs(c.inputs, c.notUpdated,
                                        FetchXChainTxOutputs(store, Keys(c.notUpdated)))
       IN  IF ~storeOk
           THEN /\ inputs' = c.inputs
                /\ notUpdated' = c.notUpdated
                /\ pending' = {}
                /\ fetchedOuts' = {}
                /\ upc' = "done"
                /\ uret' = URet("db error", {})
                /\ ulog' = <<UEv("cache", {}, TRUE),
                             UEv("FetchXChainTxOutputs", Keys(c.notUpdated), FALSE)>>
           ELSE /\ inputs' = d.inputs
                /\ notUpdated' = d.notUpdated
                /\ pending' = Keys(d.notUpdated)
                /\ fetchedOuts' = {}
                /\ upc' = IF Keys(d.notUpdated) = {} THEN "done" ELSE "chain"
                /\ uret' = IF Keys(d.notUpdated) = {} THEN unresolvedResult(d.notUpdated)
                           ELSE URet("running", {})
                /\ ulog' = <<UEv("cache", {}, TRUE),
                             UEv("FetchXChainTxOutputs", Keys(c.notUpdated), TRUE)>>

\* faulty variant of FetchStep: the outputs of a container are attached to
\* the inputs as soon as it is parsed
FetchStepAppliesEagerly(txId) ==
    /\ upc = "chain"
    /\ txId \in pending
    /\ UNCHANGED <<mirrorVars, probeVars>>
    /\ UNCHANGED <<cache, store, chainTx>>
    /\ LET r    == containerOutcome(txId, chainTx[txId])
           outs == fetchedOuts \cup r.outs
           f    == UpdateInputsWithOutputs(inputs, notUpdated, outs)
       IN  /\ ulog' = Append(ulog, UEv("FetchContainerFromIndexer", {txId},
                                       chainTx[txId] # "fetcherr"))
           /\ IF r.err # NoErr
              THEN /\ upc' = "done"
                   /\ uret' = URet(r.err, {txId})
                   /\ pending' = {}
                   /\ fetchedOuts' = {}
                   /\ UNCHANGED <<inputs, notUpdated>>
              ELSE IF pending = {txId}
              THEN /\ upc' = "done"
                   /\ uret' = unresolvedResult(f.notUpdated)
                   /\ inputs' = f.inputs
                   /\ notUpdated' = f.notUpdated
                   /\ pending' = {}
                   /\ fetchedOuts' = {}
              ELSE /\ upc' = "chain"
                   /\ pending' = pending \ {txId}
                   /\ fetchedOuts' = outs
                   /\ inputs' = f.inputs
                   /\ notUpdated' = f.notUpdated
                   /\ UNCHANGED uret

\* one iteration of the range loop of updateFromChain, over any id not yet
\* visited (Go ranges over a map in no fixed order); after the last one the
\* fetched outputs are applied and UpdateInputs returns
FetchStep(txId) ==
    /\ upc = "chain"
    /\ txId \in pending
    /\ UNCHANGED <<mirrorVars, probeVars>>
    /\ UNCHANGED <<cache, store, chainTx>>
    /\ LET r    == containerOutcome(txId, chainTx[txId])
           outs == fetchedOuts \cup r.outs
           f    == UpdateInputsWithOutputs(inputs, notUpdated, outs)
       IN  /\ ulog' = Append(ulog, UEv("FetchContainerFromIndexer", {txId},
                                       chainTx[txId] # "fetcherr"))
           /\ IF r.err # NoErr
              THEN /\ upc' = "done"
                   /\ uret' = URet(r.err, {txId})
                   /\ pending' = {}
                   /\ fetchedOuts' = {}
                   /\ UNCHANGED <<inputs, notUpdated>>
              ELSE IF pending = {txId}
              THEN /\ upc' = "done"
                   /\ uret' = unresolvedResult(f.notUpdated)
                   /\ inputs' = f.inputs
                   /\ notUpdated' = f.notUpdated
                   /\ pending' = {}
                   /\ fetchedOuts' = {}
              ELSE /\ upc' = "chain"
                   /\ pending' = pending \ {txId}
                   /\ fetchedOuts' = outs
                   /\ UNCHANGED <<inputs, notUpdated, uret>>

\* xChainInputUpdater.CacheOutputs: the producer caches the outputs of txID
CacheOutputs(txID) ==
    /\ upc \in {"idle", "done"}
    /\ txID \notin cache
    /\ cache' = cache \cup {txID}
    /\ upc' = "idle"
    /\ UNCHANGED <<mirrorVars, probeVars>>
    /\ UNCHANGED <<inputs, store, chainTx, notUpdated, pending, fetchedOuts, uret, ulog>>

\* the references an input can hold, in a fixed order
Refs == <<[tx |-> "txA", out |-> 0], [tx |-> "txA", out |-> 1],
          [tx |-> "txB", out |-> 0], [tx |-> "txB", out |-> 1]>>

\* the batches of at most MaxInputs unresolved inputs (a batch's order does
\* not matter to the updater: one batch per multiset of references)
Batches ==
    LET picks == UNION {[1..n -> 1..Len(Refs)] : n \in 0..MaxInputs}
        sorted == {b \in picks : \A i \in 1..(Len(b) - 1) : b[i] <= b[i + 1]}
    IN  {[i \in 1..Len(b) |->
            [OutTxID |-> Refs[b[i]].tx, OutIdx |-> Refs[b[i]].out, Out |-> NilPtr]]
         : b \in sorted}

Referenced(ins) == {ins[i].OutTxID : i \in 1..Len(ins)}

InputsInit ==
    /\ inputs \in Batches
    /\ cache \in SUBSET Referenced(inputs)
    /\ store \in SUBSET Referenced(inputs)
    /\ chainTx \in [OutTxIds -> ContainerKinds]
    /\ \A t \in OutTxIds \ Referenced(inputs) : chainTx[t] = "nil"
    /\ upc = "idle"
    /\ notUpdated = <<>>
    /\ pending = {}
    /\ fetchedOuts = {}
    /\ uret = URet("none", {})
    /\ ulog = <<>>
    /\ ProbeIdle
    /\ epochPeriodSeconds \in MirrorPeriods
    /\ epochTimeSeconds \in MirrorAnchors
    /\ now = 0
    /\ table = <<>>
    /\ pc = "idle"
    /\ epoch = 0
    /\ txs = <<>>
    /\ merkleTree = MerkleBuild(<<>>)
    /\ idx = 0
    /\ window = <<>>
    /\ ret = "none"
    /\ log = <<>>

InputsNext ==
    \/ \E storeOk \in BOOLEAN : UpdateInputsBegin(storeOk)
    \/ \E txId \in OutTxIds : FetchStep(txId)
    \/ \E txID \in OutTxIds : txID \in Referenced(inputs) /\ CacheOutputs(txID)

SpecInputs == InputsInit /\ [][InputsNext]_vars

(***************************************************************************)
(* The Merkle commitment on its own: buildTree applied to every batch of   *)
(* at most MaxLeaves rows whose ids are drawn, with repetition, from the   *)
(* id strings 1..MaxIdStrings, and mirrorTx applied with the tree to a row *)
(* of any of these ids, in the batch or not.                               *)
(***************************************************************************)
\* a complete row of key k whose TxID is the id string s
LeafRow(k, s) ==
    [MakeRow(k, [txid |-> "ok", type |-> "ADD_VALIDATOR_TX", node |-> "NodeID-1",
                 start |-> TRUE, end |-> TRUE], 0)
        EXCEPT !.TxID = Ptr(s)]

LeafBatches ==
    {[i \in 1..Len(b) |-> LeafRow(i, b[i])] :
        b \in UNION {[1..n -> 1..MaxIdStrings] : n \in 0..MaxLeaves}}

MerkleInit ==
    /\ InputsIdle
    /\ ProbeIdle
    /\ epochPeriodSeconds \in MirrorPeriods
    /\ epochTimeSeconds \in MirrorAnchors
    /\ now = 0
    /\ table = <<>>
    /\ pc = "idle"
    /\ epoch = 0
    /\ txs = <<>>
    /\ merkleTree = MerkleBuild(<<>>)
    /\ idx = 0
    /\ window = <<>>
    /\ ret = "none"
    /\ log = <<>>

\* buildTree over the batch rows, once
BuildStep(rows) ==
    /\ ret = "none"
    /\ txs' = rows
    /\ merkleTree' = buildTree(rows).tree
    /\ ret' = buildTree(rows).err
    /\ log' = <<Ev("buildTree", 0, IdsOf(rows), buildTree(rows).err = NoErr)>>
    /\ probe' = <<>>
    /\ found' = <<>>
    /\ UNCHANGED <<epochPeriodSeconds, epochTimeSeconds, now, table, pc, epoch,
                   idx, window>>
    /\ UNCHANGED inputVars

\* mirrorTx with the tree built, on a row whose TxID is the id string s
ProbeStep(s, vsOk) ==
    /\ ret = NoErr
    /\ probe' = LeafRow(0, s)
    /\ found' = [lookup |-> getMerkleProof(merkleTree, IdsFromString(s).id),
                 run    |-> mirrorTx(epoch, merkleTree, LeafRow(0, s), vsOk)]
    /\ UNCHANGED mirrorVars
    /\ UNCHANGED inputVars

MerkleNext ==
    \/ \E rows \in LeafBatches : BuildStep(rows)
    \/ \E s \in 1..MaxIdStrings, vsOk \in BOOLEAN : ProbeStep(s, vsOk)

SpecMerkle == MerkleInit /\ [][MerkleNext]_vars

(***************************************************************************)
(* Reading the log of a run.                                               *)
(***************************************************************************)
IsOp(l, k, op) == k \in 1..Len(l) /\ l[k].op = op

\* the keys of the rows the run of log l selected, <<>> when it selected none
SelectedOf(l) ==
    IF IsOp(l, 1, "GetUnmirroredPChainTxs") /\ l[1].ok THEN l[1].ids ELSE <<>>

\* the keys VerifyStake was called for, in call order
VerifyIdsOf(l) ==
    LET v == SelectSeq(l, LAMBDA e : e.op = "VerifyStake")
    IN  [k \in 1..Len(v) |-> v[k].id]

HasOp(l, op) == \E k \in 1..Len(l) : l[k].op = op

FailedVerify(l) == \E k \in 1..Len(l) : l[k].op = "VerifyStake" /\ ~l[k].ok

\* the run of log l ended with a successful MarkTxsAsMirrored
EndedMarked(l) == l # <<>> /\ l[Len(l)].op = "MarkTxsAsMirrored" /\ l[Len(l)].ok

IsErr(r) == r \notin {NoErr, "none", "running"}

(***************************************************************************)
(* C1 - mirroring atomicity.  In a run that selected N >= 1 rows,          *)
(* MarkTxsAsMirrored is called only as the last call of the run, after     *)
(* VerifyStake returned without error for each of the N rows in selection  *)
(* order, and with exactly the N selected rows; when some VerifyStake      *)
(* failed, MarkTxsAsMirrored is not called in that run and every selected  *)
(* row still has its mirrored flag unset.                                  *)
(***************************************************************************)
C1_MirroringAtomicity ==
    /\ \A m \in 1..Len(log) :
          log[m].op = "MarkTxsAsMirrored" =>
             /\ m = Len(log)
             /\ Len(SelectedOf(log)) >= 1
             /\ log[m].ids = SelectedOf(log)
             /\ VerifyIdsOf(log) = SelectedOf(log)
             /\ ~FailedVerify(log)
    /\ FailedVerify(log) =>
          /\ ~HasOp(log, "MarkTxsAsMirrored")
          /\ pc = "idle" /\ IsErr(ret)
          /\ \A k \in 1..Len(SelectedOf(log)) : ~table[SelectedOf(log)[k]].Mirrored

\* the second of two selected rows fails in VerifyStake after the first was
\* submitted
C1_Witness ==
    /\ Len(SelectedOf(log)) = 2
    /\ FailedVerify(log)
    /\ Len(VerifyIdsOf(log)) = 2
    /\ ret = "mirroringContract.VerifyStake"

(***************************************************************************)
(* Reading the log of an UpdateInputs call.                                *)
(***************************************************************************)
\* the store query of the call did not fail
StoreQueryOk == Len(ulog) >= 2 /\ ulog[2].ok

\* the ids the call asked the chain indexer for
FetchedIds ==
    UNION {ulog[k].ids : k \in {j \in 1..Len(ulog) : ulog[j].op = "FetchContainerFromIndexer"}}

\* the ids of the batch whose output no tier can supply / some tier can
Obtainable(tx) ==
    tx \in cache \/ tx \in store \/ chainTx[tx] \in {"BaseTx", "ImportTx"}

\* the ids some input of the batch still waits for
Unresolved == {inputs[i].OutTxID : i \in {j \in 1..Len(inputs) : inputs[j].Out = NilPtr}}

\* the call met a hard error: the store query failed, or a container it
\* fetched could not be fetched, parsed or is of an unsupported shape
HardError ==
    \/ ~StoreQueryOk
    \/ \E t \in FetchedIds : chainTx[t] \in {"fetcherr", "garbage", "OperationTx"}

C3_UnresolvedReportedExactly ==
    (upc = "done" /\ ~HardError) =>
       /\ FetchedIds = {t \in Referenced(inputs) : t \notin cache /\ t \notin store}
       /\ uret = IF Unresolved # {}
                 THEN URet("unable to fetch transactions with ids", Unresolved)
                 ELSE URet(NoErr, {})
       /\ Unresolved = {t \in Referenced(inputs) : ~Obtainable(t)}

\* one id of two is left unresolved after a nil container; the other input
\* was resolved in the same call
C3_Witness ==
    /\ upc = "done"
    /\ ~HardError
    /\ Len(inputs) = 2
    /\ Cardinality(uret.ids) = 1
    /\ uret.err = "unable to fetch transactions with ids"
    /\ \E t \in FetchedIds : chainTx[t] = "nil" /\ t \in uret.ids
    /\ \E i \in 1..Len(inputs) : inputs[i].Out # NilPtr

(***************************************************************************)
(* C4 - retry after a failed run.  When a run failed after at least one    *)
(* of its selected rows was submitted (in a later mirrorTx or in           *)
(* MarkTxsAsMirrored), the next run whose selection query succeeds selects *)
(* those rows again.                                                       *)
(***************************************************************************)
C4_FailedRunIsReselected ==
    [][ ( /\ pc = "idle"
          /\ IsErr(ret)
          /\ \E k \in 1..Len(log) : log[k].op = "VerifyStake" /\ log[k].ok
          /\ log' # log
          /\ IsOp(log', 1, "GetUnmirroredPChainTxs")
          /\ log'[1].ok )
        => Range(SelectedOf(log)) \subseteq Range(SelectedOf(log')) ]_vars

(***************************************************************************)
(* C5 - idempotent re-invocation.  A run whose selection is empty returns  *)
(* success having made no other call; the rows a run submits have their    *)
(* mirrored flag unset; and a run for the same epoch as a run that ended   *)
(* with a successful MarkTxsAsMirrored selects nothing and returns         *)
(* success.                                                                *)
(***************************************************************************)
C5_EmptyRun ==
    (IsOp(log, 1, "GetUnmirroredPChainTxs") /\ log[1].ok /\ log[1].ids = <<>>)
       => (Len(log) = 1 /\ ret = NoErr /\ pc = "idle")

C5_SubmitsUnmirrored ==
    pc \in {"mirrorTx", "mark"} =>
       /\ \A k \in 1..Len(txs) : ~table[txs[k].ID].Mirrored
       /\ \A k \in 1..Len(VerifyIdsOf(log)) : ~table[VerifyIdsOf(log)[k]].Mirrored

C5_IdempotentReinvocation ==
    /\ [](C5_EmptyRun /\ C5_SubmitsUnmirrored)
    /\ [][ ( /\ pc = "idle"
             /\ EndedMarked(log)
             /\ log' # log
             /\ epoch' = epoch
             /\ IsOp(log', 1, "GetUnmirroredPChainTxs")
             /\ log'[1].ok )
           => ( /\ log' = <<Ev("GetUnmirroredPChainTxs", 0, <<>>, TRUE)>>
                /\ ret' = NoErr
                /\ pc' = "idle" ) ]_vars

\* a finished run selected nothing although a row of its window exists: the
\* row was mirrored by an earlier run for the same window
C5_Witness ==
    /\ log = <<Ev("GetUnmirroredPChainTxs", 0, <<>>, TRUE)>>
    /\ ret = NoErr
    /\ window # <<>>
    /\ \E k \in 1..Len(table) :
          /\ table[k].Mirrored
          /\ window[1] <= table[k].Timestamp
          /\ table[k].Timestamp < window[2]

(***************************************************************************)
(* C6 - epoch window position: the window computed for the previous epoch  *)
(* of now does not contain now, ends at or before now, and its end is the  *)
(* start of the window of the next epoch.                                  *)
(***************************************************************************)
C6_WindowBeforeNow ==
    ret = "epoch" =>
       /\ ~(window[1] <= now /\ now < window[2])
       /\ window[2] <= now
       /\ window[2] = startTimestamp(epoch + 1)

(***************************************************************************)
(* C7 - previous-epoch formula: getPreviousEpoch returns                   *)
(* floor((now - anchor) / period) - 1.                                     *)
(***************************************************************************)
C7_PreviousEpochIsFloor ==
    ret = "epoch" =>
       epoch = ((now - epochTimeSeconds) \div epochPeriodSeconds) - 1

(***************************************************************************)
(* C8 - invalid epoch.  When the previous-epoch index Call computed is     *)
(* negative, Call has returned "invalid epoch" and the run made no call:   *)
(* no selection, no VerifyStake, no MarkTxsAsMirrored.                     *)
(***************************************************************************)
C8_InvalidEpochAborts ==
    /\ epoch < 0 => (ret = "invalid epoch" /\ log = <<>> /\ pc = "idle" /\ window = <<>>)
    /\ ret = "invalid epoch" => epoch < 0

\* the run was aborted although the table holds a row
C8_Witness ==
    /\ epoch < 0
    /\ ret = "invalid epoch"
    /\ Len(table) >= 1

(***************************************************************************)
(* C9 - input errors abort the batch.  When a selected row has a type      *)
(* other than the two staking types, a node id that does not parse, or a   *)
(* nil start or end time, then neither that row nor any row selected after *)
(* it is submitted, MarkTxsAsMirrored is not called, and the finished run  *)
(* returned an error.                                                      *)
(***************************************************************************)
UnfitRow(r) ==
    \/ r.Type \notin {"ADD_VALIDATOR_TX", "ADD_DELEGATOR_TX"}
    \/ r.NodeID # "NodeID-1"
    \/ r.StartTime = NilPtr
    \/ r.EndTime = NilPtr

C9_InputErrorAbortsBatch ==
    LET sel == SelectedOf(log)
    IN  \A f \in 1..Len(sel) :
           UnfitRow(table[sel[f]]) =>
              /\ \A j \in f..Len(sel) : sel[j] \notin Range(VerifyIdsOf(log))
              /\ ~HasOp(log, "MarkTxsAsMirrored")
              /\ pc # "mark"
              /\ pc = "idle" => IsErr(ret)

\* the second of two selected rows is unfit; the first was submitted and the
\* run failed on the second
C9_Witness ==
    LET sel == SelectedOf(log)
    IN  /\ Len(sel) = 2
        /\ ~UnfitRow(table[sel[1]])
        /\ UnfitRow(table[sel[2]])
        /\ VerifyIdsOf(log) = <<sel[1]>>
        /\ ~FailedVerify(log)
        /\ pc = "idle"
        /\ ret \in {"invalid tx type", "ids.NodeIDFromString",
                    "tx.StartTime is nil", "tx.EndTime is nil"}

(***************************************************************************)
(* C10 - missing or unparseable transaction id.  When a selected row has a *)
(* nil TxID or a TxID that is no ledger id, the run has failed in          *)
(* buildTree: after the selection its only call is the failed buildTree,   *)
(* so no proof was requested and no VerifyStake made, wherever the row is  *)
(* in the batch.                                                           *)
(***************************************************************************)
BadTxID(r) == r.TxID = NilPtr \/ r.TxID = Ptr(BadIdString)

C10_BadTxIDFailsInBuildTree ==
    LET sel == SelectedOf(log)
    IN  (\E f \in 1..Len(sel) : BadTxID(table[sel[f]])) =>
           /\ log = <<Ev("GetUnmirroredPChainTxs", 0, sel, TRUE),
                      Ev("buildTree", 0, sel, FALSE)>>
           /\ pc = "idle"
           /\ ret \in {"tx.TxID is nil", "ids.FromString"}

\* the row without a usable id is the last of the batch, after a sound row
C10_Witness ==
    LET sel == SelectedOf(log)
    IN  /\ Len(sel) = 2
        /\ ~BadTxID(table[sel[1]]) /\ ~UnfitRow(table[sel[1]])
        /\ BadTxID(table[sel[2]])
        /\ HasOp(log, "buildTree")

(***************************************************************************)
(* C11 - transaction-type tag.  getTxType maps the validator-add type to   *)
(* 0, the delegator-add type to 1 and returns an error for every other     *)
(* type; every VerifyStake call of a run carries the tag of its row's type *)
(* (0 for a validator-add row, 1 for a delegator-add row), and no          *)
(* VerifyStake call is made for a row of any other type.                   *)
(***************************************************************************)
C11_TxTypeTag ==
    /\ \A t \in PChainTxTypes :
          getTxType(t) = CASE t = "ADD_VALIDATOR_TX" -> [err |-> NoErr, tag |-> 0]
                           [] t = "ADD_DELEGATOR_TX" -> [err |-> NoErr, tag |-> 1]
                           [] OTHER -> [err |-> "invalid tx type", tag |-> 0]
    /\ \A k \in 1..Len(log) :
          log[k].op = "VerifyStake" =>
             \/ /\ table[log[k].id].Type = "ADD_VALIDATOR_TX"
                /\ log[k].data.TransactionType = 0
             \/ /\ table[log[k].id].Type = "ADD_DELEGATOR_TX"
                /\ log[k].data.TransactionType = 1

\* a delegator-add row was submitted with tag 1, and the run then failed on
\* a row of another type, for which no call was made
C11_Witness ==
    LET sel == SelectedOf(log)
    IN  /\ Len(sel) = 2
        /\ table[sel[1]].Type = "ADD_DELEGATOR_TX"
        /\ table[sel[2]].Type = "REWARD_TX"
        /\ Len(log) = 4
        /\ log[4].op = "VerifyStake" /\ log[4].id = sel[1]
        /\ log[4].data.TransactionType = 1
        /\ pc = "idle"
        /\ ret = "invalid tx type"

(***************************************************************************)
(* C12 - sequential, ordered submission.  Within a run the VerifyStake     *)
(* calls are made one per step, for the selected rows in selection order,  *)
(* each row at most once, and a call is made only when every call before   *)
(* it returned without error; when the k-th call failed the run is over,   *)
(* the k-1 calls before it succeeded and no row after the k-th was         *)
(* submitted.                                                              *)
(***************************************************************************)
\* the VerifyStake events of the log l, in call order
VerifyEventsOf(l) == SelectSeq(l, LAMBDA e : e.op = "VerifyStake")

C12_InOrder ==
    LET sel == SelectedOf(log)
        v   == VerifyEventsOf(log)
    IN  /\ Len(v) <= Len(sel)
        /\ \A k \in 1..Len(v) : v[k].id = sel[k]
        /\ \A j, k \in 1..Len(v) : j # k => v[j].id # v[k].id
        /\ \A k \in 1..(Len(v) - 1) : v[k].ok
        /\ pc = "mirrorTx" => (Len(v) = idx - 1 /\ \A k \in 1..Len(v) : v[k].ok)
        /\ FailedVerify(log) =>
              /\ ~v[Len(v)].ok
              /\ pc = "idle"
              /\ ret = "mirroringContract.VerifyStake"
              /\ log[Len(log)] = v[Len(v)]

C12_SequentialOrderedSubmission ==
    /\ []C12_InOrder
    /\ [][ \/ Len(VerifyEventsOf(log')) = 0
           \/ /\ Len(VerifyEventsOf(log')) = Len(VerifyEventsOf(log)) + 1
              /\ pc = "mirrorTx"
              /\ \A k \in 1..Len(VerifyEventsOf(log)) : VerifyEventsOf(log)[k].ok
           \/ VerifyEventsOf(log') = VerifyEventsOf(log) ]_vars

\* the first of two sound selected rows failed in VerifyStake: the second
\* was not submitted
C12_Witness ==
    LET sel == SelectedOf(log)
    IN  /\ Len(sel) = 2
        /\ ~UnfitRow(table[sel[2]])
        /\ Len(VerifyEventsOf(log)) = 1
        /\ VerifyEventsOf(log)[1].id = sel[1]
        /\ ~VerifyEventsOf(log)[1].ok
        /\ pc = "idle"

(***************************************************************************)
(* C13 - selection window.  Every row a run submits or marks is            *)
(* timestamped in the half-open window [start, end) of the epoch the run   *)
(* computed, the previous epoch of the time it started at, and had its     *)
(* mirrored flag unset when the run selected it; a row timestamped outside *)
(* that window is neither submitted nor marked by the run.                 *)
(***************************************************************************)
\* the row of key id is timestamped in the window of epoch e
InWindowOf(e, id) ==
    /\ epochTimeSeconds + e * epochPeriodSeconds <= table[id].Timestamp
    /\ table[id].Timestamp < epochTimeSeconds + (e + 1) * epochPeriodSeconds

\* the keys of the rows the run of log l submitted or marked
TouchedBy(l) ==
    Range(VerifyIdsOf(l))
    \cup UNION {Range(l[k].ids) : k \in {j \in 1..Len(l) : l[j].op = "MarkTxsAsMirrored"}}

C13_TouchedInWindow ==
    /\ \A id \in TouchedBy(log) : InWindowOf(epoch, id)
    /\ \A k \in 1..Len(table) :
          ~InWindowOf(epoch, k) => k \notin TouchedBy(log)
    /\ TouchedBy(log) \subseteq Range(SelectedOf(log))

C13_SelectionWindow ==
    /\ []C13_TouchedInWindow
    /\ [][ /\ (pc = "idle" /\ log' # log) =>
                /\ epoch' = ((now - epochTimeSeconds) \div epochPeriodSeconds) - 1
                /\ \A id \in Range(SelectedOf(log')) :
                      ~table[id].Mirrored /\ InWindowOf(epoch', id)
           /\ \A k \in 1..Len(table) :
                 table'[k].Mirrored # table[k].Mirrored =>
                    InWindowOf(epoch, k) /\ k \in Range(SelectedOf(log)) ]_vars

\* a run submitted and marked a row of its window while an unmirrored row
\* timestamped after the window was in the table: that row was not touched
C13_Witness ==
    /\ EndedMarked(log)
    /\ \E k \in 1..Len(table) :
          /\ ~table[k].Mirrored
          /\ table[k].Timestamp >= epochTimeSeconds + (epoch + 1) * epochPeriodSeconds
          /\ k \notin TouchedBy(log)
    /\ \E k \in 1..Len(table) : table[k].Mirrored /\ k \in TouchedBy(log)

(***************************************************************************)
(* C14 - resolution idempotence.  Once every input of the batch carries    *)
(* its output, a further UpdateInputs call on the batch changes no input,  *)
(* at any of its steps, and does not return the unresolved-ids error: it   *)
(* returns no error unless it met a hard error; the call that resolved the *)
(* batch returned no error either.                                         *)
(***************************************************************************)
AllResolved ==
    /\ Len(inputs) >= 1
    /\ \A i \in 1..Len(inputs) : inputs[i].Out # NilPtr

C14_ResolutionIdempotence ==
    /\ [](AllResolved => uret.err # "unable to fetch transactions with ids")
    /\ []((AllResolved /\ upc = "done" /\ ~HardError) => uret = URet(NoErr, {}))
    /\ [][AllResolved => inputs' = inputs]_vars

\* a call on a batch of two inputs that were both resolved before it began:
\* it went through the cache and store tiers, which hold neither id, has
\* fetched one id from the chain again and is about to fetch the other
C14_Witness ==
    /\ AllResolved
    /\ Len(inputs) = 2
    /\ upc = "chain"
    /\ Cardinality(FetchedIds) = 1
    /\ Cardinality(pending) = 1
    /\ cache = {} /\ store = {}

(***************************************************************************)
(* C15 - Merkle inclusion proofs.  For the tree built from a leaf sequence *)
(* L, the proof returned for each hash of L recombines, sibling by         *)
(* sibling, to the root of the tree, and the request of a proof for a hash *)
(* that is not in L fails; mirrorTx returns a failed proof lookup as an    *)
(* error and makes no VerifyStake call, and otherwise submits the proof    *)
(* the tree returned.                                                      *)
(***************************************************************************)
C15_MerkleInclusionProofs ==
    ret = NoErr =>
       LET L == merkleTree.leaves
       IN  /\ \A h \in Range(L) :
                 /\ GetProofFromHash(merkleTree, h).err = NoErr
                 /\ Recombine(LeafHash(h), GetProofFromHash(merkleTree, h).proof)
                       = MerkleRoot(merkleTree)
           /\ \A s \in 1..MaxIdStrings :
                 IdOfString(s) \notin Range(L) =>
                    GetProofFromHash(merkleTree, IdOfString(s)).err # NoErr
           /\ probe # <<>> =>
                 IF IdOfString(Deref(probe.TxID)) \in Range(L)
                 THEN /\ found.lookup.err = NoErr
                      /\ Recombine(LeafHash(IdOfString(Deref(probe.TxID))), found.lookup.proof)
                            = MerkleRoot(merkleTree)
                      /\ Len(VerifyEventsOf(found.run.events)) = 1
                      /\ VerifyEventsOf(found.run.events)[1].proof = found.lookup.proof
                 ELSE /\ found.lookup.err = "merkleTree.GetProof"
                      /\ found.run.err = "merkleTree.GetProof"
                      /\ VerifyEventsOf(found.run.events) = <<>>

\* a tree over three different leaves, and mirrorTx on a row whose id is
\* none of them: the lookup failed and no call was made
C15_Witness ==
    /\ ret = NoErr
    /\ Len(merkleTree.leaves) = 3
    /\ Cardinality(Range(merkleTree.leaves)) = 3
    /\ Len(GetProofFromHash(merkleTree, merkleTree.leaves[2]).proof) = 2
    /\ probe # <<>>
    /\ IdOfString(Deref(probe.TxID)) \notin Range(merkleTree.leaves)
    /\ found.run.err = "merkleTree.GetProof"

(***************************************************************************)
(* C16 - tier order and narrowing.  An UpdateInputs call runs the cache    *)
(* tier, then the store tier, then the chain tier; the store is queried    *)
(* with the ids the cache did not resolve; the chain indexer is asked only *)
(* for ids that neither the cache nor the store resolved, one id per step  *)
(* and each id at most once, and it is not asked at all when nothing is    *)
(* left after the store tier (or when the store query failed).             *)
(***************************************************************************)
\* the positions of the chain fetches in the log of the call
FetchPositions == {k \in 1..Len(ulog) : ulog[k].op = "FetchContainerFromIndexer"}

C16_TiersInOrder ==
    upc \in {"chain", "done"} =>
       /\ Len(ulog) >= 2
       /\ ulog[1].op = "cache"
       /\ ulog[2].op = "FetchXChainTxOutputs"
       /\ ulog[2].ids = Referenced(inputs) \ cache
       /\ FetchPositions = 3..Len(ulog)
       /\ \A k \in FetchPositions :
             \E t \in Referenced(inputs) :
                ulog[k].ids = {t} /\ t \notin cache /\ t \notin store
       /\ \A j, k \in FetchPositions : j # k => ulog[j].ids # ulog[k].ids
       /\ (~ulog[2].ok \/ (Referenced(inputs) \ cache) \ store = {}) => Len(ulog) = 2

C16_TierOrderAndNarrowing ==
    /\ []C16_TiersInOrder
    /\ [][ upc = "chain" =>
             /\ Len(ulog') = Len(ulog) + 1
             /\ SubSeq(ulog', 1, Len(ulog)) = ulog
             /\ ulog'[Len(ulog')].op = "FetchContainerFromIndexer" ]_vars

\* a finished call on two ids the cache has not: the store was queried with
\* both and resolved one, the chain indexer was asked for the other only
C16_Witness ==
    /\ upc = "done"
    /\ Len(ulog) = 3
    /\ Cardinality(ulog[2].ids) = 2
    /\ Cardinality(store) = 1
    /\ ulog[3].ids = ulog[2].ids \ store
    /\ uret = URet(NoErr, {})

(***************************************************************************)
(* C17 - hard errors in resolution.  A failed store query, a failed chain  *)
(* fetch, a container that does not parse or a transaction of another      *)
(* shape than BaseTx and ImportTx ends the UpdateInputs call with that     *)
(* error, the first one met (for an unsupported shape, an error naming the *)
(* type): nothing is fetched after it and the unresolved-ids error is not  *)
(* returned; the inputs that the cache tier, and the store tier when its   *)
(* query succeeded, resolved carry their outputs, and no step of any call  *)
(* takes an output away from an input.                                     *)
(***************************************************************************)
HardKinds == {"fetcherr", "garbage", "OperationTx"}

\* the error the chain tier returns for a container of a hard kind
HardErrorOf(kind) ==
    CASE kind = "fetcherr"    -> "fetch failed"
      [] kind = "garbage"     -> "parse failed"
      [] kind = "OperationTx" -> "unsupported type OperationTx"

\* the id asked of the chain indexer at position k of the log
FetchedAt(k) == CHOOSE t \in OutTxIds : ulog[k].ids = {t}

C17_HardErrorReturned ==
    /\ (upc = "done" /\ ~StoreQueryOk) =>
          /\ uret = URet("db error", {})
          /\ Len(ulog) = 2
          /\ \A i \in 1..Len(inputs) :
                inputs[i].OutTxID \in cache =>
                   inputs[i].Out = Ptr(Output(inputs[i].OutTxID, inputs[i].OutIdx))
    /\ upc \in {"chain", "done"} =>
          \A k \in FetchPositions :
             chainTx[FetchedAt(k)] \in HardKinds =>
                /\ k = Len(ulog)
                /\ upc = "done"
                /\ uret = URet(HardErrorOf(chainTx[FetchedAt(k)]), {FetchedAt(k)})
                /\ \A i \in 1..Len(inputs) :
                      (inputs[i].OutTxID \in cache \/ inputs[i].OutTxID \in store) =>
                         inputs[i].Out = Ptr(Output(inputs[i].OutTxID, inputs[i].OutIdx))

C17_HardErrorsInResolution ==
    /\ []C17_HardErrorReturned
    /\ [][ \A i \in 1..Len(inputs) :
             inputs[i].Out # NilPtr => inputs'[i].Out = inputs[i].Out ]_vars

\* the store resolved one input of two, the chain indexer returned a
\* transaction of an unsupported shape for the other: the call returned the
\* error naming the type, the first input carries its output, and the second
\* is left unresolved without being reported
C17_Witness ==
    /\ upc = "done"
    /\ Len(inputs) = 2
    /\ uret.err = "unsupported type OperationTx"
    /\ \E i, j \in 1..2 :
          /\ inputs[i].OutTxID \in store /\ inputs[i].OutTxID \notin cache
          /\ inputs[i].Out # NilPtr
          /\ inputs[j].Out = NilPtr
          /\ chainTx[inputs[j].OutTxID] = "OperationTx"

(***************************************************************************)
(* C18 - staking-record lifecycle.  No step removes a row of the table or  *)
(* changes a field of a row other than its mirrored flag; the flag of a    *)
(* row changes only from unset to set, only in the MarkTxsAsMirrored that  *)
(* ends a run in which every selected row was submitted without error, the *)
(* run then returning no error, and only for a row the run selected.       *)
(***************************************************************************)
C18_StakingRecordLifecycle ==
    [][ /\ Len(table') >= Len(table)
        /\ \A k \in 1..Len(table) :
              \/ table'[k] = table[k]
              \/ /\ ~table[k].Mirrored
                 /\ table'[k] = [table[k] EXCEPT !.Mirrored = TRUE]
                 /\ pc = "mark"
                 /\ VerifyIdsOf(log) = SelectedOf(log)
                 /\ ~FailedVerify(log)
                 /\ k \in Range(SelectedOf(log))
                 /\ EndedMarked(log')
                 /\ pc' = "idle"
                 /\ ret' = NoErr ]_vars

\* after a run that marked its row, a later run submitted its own row and
\* failed in MarkTxsAsMirrored: the first row is still marked, the second is
\* not, and both are in the table as they were written
C18_Witness ==
    /\ Len(table) = 2
    /\ table[1].Mirrored
    /\ ~table[2].Mirrored
    /\ pc = "idle"
    /\ ret = "db error"
    /\ VerifyIdsOf(log) = <<2>>
    /\ log[Len(log)].op = "MarkTxsAsMirrored" /\ ~log[Len(log)].ok
    /\ \E sh \in RowShapes : table[2] = MakeRow(2, sh, table[2].Timestamp)

(***************************************************************************)
(* C19 - one tree per batch.  A run builds the Merkle tree once, right     *)
(* after the selection and before any proof or submission, from all the    *)
(* selected rows: leaf i is the id of the i-th selected row, so the tree   *)
(* has as many leaves as rows were selected, in their order (buildTree     *)
(* keeps repeated ids and the order it is given); the tree is not changed  *)
(* during the run, and every VerifyStake call carries the hash of its row, *)
(* which is a leaf of that tree, and the proof that tree gives for it.     *)
(***************************************************************************)
\* the leaves buildTree is to make of rows
LeavesOf(rows) == [i \in 1..Len(rows) |-> IdOfString(Deref(rows[i].TxID))]

\* the rows of the table with the keys ks, in the order of ks
RowsOf(ks) == [i \in 1..Len(ks) |-> table[ks[i]]]

\* buildTree as a function, on batches with repeated ids too (a statement
\* about no state, evaluated where the table is empty)
C19_BuildTreeKeepsLeaves ==
    \A rows \in LeafBatches :
       /\ buildTree(rows).err = NoErr
       /\ buildTree(rows).tree.leaves = LeavesOf(rows)
       /\ Len(buildTree(rows).tree.leaves) = Len(rows)

C19_TreeOfTheRun ==
    LET sel  == SelectedOf(log)
        tree == MerkleBuild(LeavesOf(RowsOf(sel)))
    IN  /\ \A k \in 1..Len(log) : log[k].op = "buildTree" => k = 2
        /\ Len(sel) >= 1 => (IsOp(log, 2, "buildTree") /\ log[2].ids = sel)
        /\ pc \in {"mirrorTx", "mark"} =>
              /\ IsOp(log, 2, "buildTree") /\ log[2].ok
              /\ IdsOf(txs) = sel
              /\ merkleTree = tree
              /\ merkleTree.leaves = LeavesOf(txs)
              /\ Len(merkleTree.leaves) = Len(sel)
        /\ \A k \in 1..Len(log) :
              log[k].op \in {"GetProofFromHash", "VerifyStake"} =>
                 (k > 2 /\ IsOp(log, 2, "buildTree") /\ log[2].ok)
        /\ \A k \in 1..Len(log) :
              log[k].op = "VerifyStake" =>
                 /\ log[k].data.TransactionHash \in Range(tree.leaves)
                 /\ log[k].data.TransactionHash = LeavesOf(<<table[log[k].id]>>)[1]
                 /\ log[k].proof = GetProofFromHash(tree, log[k].data.TransactionHash).proof
                 /\ Recombine(LeafHash(log[k].data.TransactionHash), log[k].proof)
                       = MerkleRoot(tree)

C19_OneTreePerBatch ==
    /\ [](table = <<>> => C19_BuildTreeKeepsLeaves)
    /\ []C19_TreeOfTheRun
    /\ [][ (pc \in {"mirrorTx", "mark"} /\ pc' \in {"mirrorTx", "mark"})
             => merkleTree' = merkleTree ]_vars

\* both rows of a batch of two were submitted, each with the other's leaf
\* as its proof
C19_Witness ==
    LET v == VerifyEventsOf(log)
    IN  /\ Len(SelectedOf(log)) = 2
        /\ Len(v) = 2
        /\ v[1].proof = <<LeafHash(v[2].data.TransactionHash)>>
        /\ v[2].proof = <<LeafHash(v[1].data.TransactionHash)>>
        /\ pc = "mark"
        /\ Len(merkleTree.leaves) = 2

(***************************************************************************)
(* C20 - the chain tier applies its results only at the end.  A step of    *)
(* the chain tier changes an input only when it is the step for the last   *)
(* remaining id and every id of the tier was fetched and parsed without    *)
(* error; until then the outputs extracted are only accumulated.  In       *)
(* particular a step that ends the call with a fetch, parse or             *)
(* unsupported-shape error changes no input, and no earlier step of the    *)
(* tier did, whatever was fetched before it.                               *)
(***************************************************************************)
\* the outputs of the containers the call has fetched so far
ExtractedSoFar ==
    UNION {TxOutputsFromBaseTx(t) : t \in {u \in FetchedIds : chainTx[u] \in {"BaseTx", "ImportTx"}}}

C20_AccumulatedOnly ==
    upc = "chain" =>
       /\ fetchedOuts = ExtractedSoFar
       /\ pending = Keys(notUpdated) \ FetchedIds
       /\ \A t \in FetchedIds : chainTx[t] \notin HardKinds
       /\ \A t \in Keys(notUpdated) : t \notin cache /\ t \notin store

C20_ChainTierAppliesAtEnd ==
    /\ []C20_AccumulatedOnly
    /\ [][ upc = "chain" =>
             /\ notUpdated' # notUpdated => inputs' # inputs \/ upc' = "done"
             /\ inputs' # inputs =>
                   /\ upc' = "done"
                   /\ Cardinality(pending) = 1
                   /\ FetchedIds' = Keys(notUpdated)
                   /\ \A t \in FetchedIds' : chainTx[t] \notin HardKinds
                   /\ uret' = unresolvedResult(notUpdated')
             /\ (upc' = "chain" \/ \E t \in FetchedIds' : chainTx[t] \in HardKinds)
                   => (inputs' = inputs /\ notUpdated' = notUpdated) ]_vars

\* the chain tier fetched and parsed the container of one id, then met a
\* hard error on the other id: the input waiting for the first id, which
\* neither the cache nor the store holds, is still unresolved
C20_Witness ==
    /\ upc = "done"
    /\ Len(ulog) = 4
    /\ chainTx[FetchedAt(3)] \in {"BaseTx", "ImportTx"}
    /\ chainTx[FetchedAt(4)] \in HardKinds
    /\ uret.err = HardErrorOf(chainTx[FetchedAt(4)])
    /\ \A i \in 1..Len(inputs) : inputs[i].Out = NilPtr
    /\ Len(inputs) = 2

=============================================================================
